---- MODULE Spec2Model ----
(***************************************************************************)
(* Model of carte_animee (src/script.js): the load chain of the two        *)
(* GeoJSON documents, the scale state, the zoom-driven render mode         *)
(* selector and the two renderers that redraw the symbol layer             *)
(* (portsLayer) and the flow-line layer (flowsLayer).                      *)
(*                                                                         *)
(* Numbers.  JavaScript numbers are modelled as integers.  Volumes are     *)
(* whole numbers.  Radii, widths and ratios are fixed-point values in      *)
(* thousandths (Milli): a radius of 25 px is 25000.  Math.sqrt and         *)
(* Math.log10 are computed in fixed point, rounded down (SqrtFix in        *)
(* tenths, Log10Fix in 64ths).  NaN, undefined and the two infinities are  *)
(* distinct values outside the range of every volume, and every            *)
(* comparison treats them as JavaScript does.                              *)
(***************************************************************************)
EXTENDS Integers, Sequences, FiniteSets

VARIABLES
  pc,             \* position of the promise chain of src/script.js:242-344
  fetched,        \* the URLs fetch() was called with, in call order
  errors,         \* the messages console.error was called with
  ouidahFeature,  \* let ouidahFeature (line 33): null or the Origin feature
  ouidahLatLng,   \* let ouidahLatLng (line 34)
  ouidahMarker,   \* let ouidahMarker (line 35): whether the marker is on the map
  portsFeatures,  \* let portsFeatures (line 37)
  maxValue,       \* let maxValue (line 40)
  minPositive,    \* let minPositive (line 41)
  sizeScale,      \* let sizeScale (line 42): null or the closure of createSizeScale
  minLog,         \* let minLog (line 43)
  maxLog,         \* let maxLog (line 44)
  portsLayer,     \* const portsLayer (line 29): the symbols it holds, in drawing order
  flowsLayer,     \* const flowsLayer (line 30): the lines it holds, in drawing order
  zoom,           \* the map's zoom level (map.getZoom()), NoZoom before setView
  zoomHandlers,   \* number of listeners registered with map.on("zoomend")
  kmeans,         \* what turf.clustersKmeans answers for portsFeatures
  lastRender,     \* the last call of drawDetailed / drawClustered, and its reading of the scale state
  initScalesCalls,\* number of completed calls of initScales
  chain,          \* the value the last settled step of the promise chain resolved with
  probe           \* a size scale under test and its last calls (SpecScale only)

vars == <<pc, fetched, errors, ouidahFeature, ouidahLatLng, ouidahMarker,
          portsFeatures, maxValue, minPositive, sizeScale, minLog, maxLog,
          portsLayer, flowsLayer, zoom, zoomHandlers, kmeans, lastRender,
          initScalesCalls, chain, probe>>

---------------------------------------------------------------------------
(* Bounds of the model *)

\* Largest number of features in the destination document.
MaxRecords == 2

\* Largest zoom level the map is taken to (the tile layer of line 21 allows 10;
\* every level from 5 on is drawn alike).
MaxZoom == 6

\* Largest small maxValue and argument of the size scales SpecScale builds.
MaxProbe == 5

(* Program constants *)

\* createSizeScale's default minRadius and maxRadius, in px.
MinRadius == 4
MaxRadius == 25

\* ouidahFeature.properties.total_disembarked, fixed by the load chain.
OuidahTotal == 1300000

\* The zoom level of map.setView(ouidahLatLng, 3).
InitialZoom == 3

\* updateMapForZoom's thresholds and cluster counts.
DetailedZoom == 5
MidZoom == 3
MidClusters == 20
LowClusters == 5

---------------------------------------------------------------------------
(* JavaScript values *)

Milli == 10 * 10 * 10

NaN == 0 - 2000000001
Undefined == 0 - 2000000002
PosInf == 2000000000 + 3
NegInf == 0 - 2000000003
NoZoom == 0 - 1
Null == "null"

\* JSON values of a total_disembarked property that are not numbers: null and a
\* text that is no number ("abc"); Undefined is the property being absent.
JsonNull == 0 - 2000000004
JsonText == 0 - 2000000005

IsNumber(x) == x \notin {NaN, Undefined, PosInf, NegInf}

\* isNaN(x) for a number x
IsNaN(x) == x = NaN

\* !x for a number or undefined: 0, NaN and undefined are falsy
Falsy(x) == x \in {0, NaN, Undefined}

\* Number(x) for a property value x
Number(x) ==
  IF x = Undefined \/ x = JsonText THEN NaN
  ELSE IF x = JsonNull THEN 0
  ELSE x

\* x || 0 for a number x
OrZero(x) == IF Falsy(x) THEN 0 ELSE x

\* a <= b and a > b as JavaScript evaluates them: false when either is NaN or undefined
Leq(a, b) ==
  IF a \in {NaN, Undefined} \/ b \in {NaN, Undefined} THEN FALSE
  ELSE IF a = NegInf \/ b = PosInf THEN TRUE
  ELSE IF a = PosInf \/ b = NegInf THEN FALSE
  ELSE a <= b

Gt(a, b) ==
  IF a \in {NaN, Undefined} \/ b \in {NaN, Undefined} THEN FALSE
  ELSE ~Leq(a, b)

\* Math.min(a, b) and Math.max(a, b): NaN when either argument is NaN
MathMin(a, b) == IF IsNaN(a) \/ IsNaN(b) THEN NaN ELSE IF Leq(a, b) THEN a ELSE b
MathMax(a, b) == IF IsNaN(a) \/ IsNaN(b) THEN NaN ELSE IF Leq(a, b) THEN b ELSE a

\* Math.max(...values) and Math.min(...values): -Infinity and Infinity for no values
RECURSIVE MathMaxAll(_)
MathMaxAll(values) ==
  IF values = <<>> THEN NegInf ELSE MathMax(Head(values), MathMaxAll(Tail(values)))

RECURSIVE MathMinAll(_)
MathMinAll(values) ==
  IF values = <<>> THEN PosInf ELSE MathMin(Head(values), MathMinAll(Tail(values)))

\* The largest integer whose square is at most x, by Newton's iteration from
\* an r no less than it.
RECURSIVE ISqrt(_, _)
ISqrt(x, r) ==
  LET next == (r + x \div r) \div 2
  IN IF next >= r THEN r ELSE ISqrt(x, next)

\* A power of two that is no less than the square root of x, for x < 2^30
SqrtCeil(x) ==
  IF x < 4 THEN 2 ELSE IF x < 16 THEN 4 ELSE IF x < 64 THEN 8
  ELSE IF x < 256 THEN 16 ELSE IF x < 1024 THEN 32 ELSE IF x < 4096 THEN 64
  ELSE IF x < 16384 THEN 128 ELSE IF x < 65536 THEN 256
  ELSE IF x < 262144 THEN 512 ELSE IF x < 1048576 THEN 1024
  ELSE IF x < 4194304 THEN 2048 ELSE IF x < 16777216 THEN 4096
  ELSE IF x < 67108864 THEN 8192 ELSE IF x < 268435456 THEN 16384
  ELSE 32768

\* Math.sqrt(x) in tenths, for a number x: NaN for a negative x
SqrtFix(x) ==
  IF x < 0 THEN NaN
  ELSE IF x = 0 THEN 0
  ELSE ISqrt(x * 100, SqrtCeil(x * 100))

\* x >= 1 as <<e, m>> with x = (m / 1000) * 10^e and m in 1000..9999,
\* the digits of x past the fourth dropped
Normalised(x) ==
  IF x < 10 THEN <<0, x * 1000>>
  ELSE IF x < 100 THEN <<1, x * 100>>
  ELSE IF x < 1000 THEN <<2, x * 10>>
  ELSE IF x < 10000 THEN <<3, x>>
  ELSE IF x < 100000 THEN <<4, x \div 10>>
  ELSE IF x < 1000000 THEN <<5, x \div 100>>
  ELSE IF x < 10000000 THEN <<6, x \div 1000>>
  ELSE IF x < 100000000 THEN <<7, x \div 10000>>
  ELSE IF x < 1000000000 THEN <<8, x \div 100000>>
  ELSE <<9, x \div 1000000>>

\* The first n binary digits of log10(m / 1000) for the mantissa m in 1000..9999.
RECURSIVE LogBits(_, _)
LogBits(m, n) ==
  IF n = 0 THEN 0
  ELSE LET sq == (m * m) \div Milli
       IN IF sq >= 10 * Milli
          THEN 2 ^ (n - 1) + LogBits(sq \div 10, n - 1)
          ELSE LogBits(sq, n - 1)

\* Math.log10(x) in 64ths, for a positive number x
Log10Fix(x) ==
  LET n == Normalised(x)
  IN n[1] * 64 + LogBits(n[2], 6)

\* a / b for two numbers, in thousandths: NaN for 0/0, an infinity for x/0
Divide(a, b) ==
  IF b = 0 THEN (IF a = 0 THEN NaN ELSE IF a > 0 THEN PosInf ELSE NegInf)
  ELSE (a * Milli) \div b

---------------------------------------------------------------------------
(* Scales *)

\* Fault seeded in createSizeScale: maxRoot taken as maxValue itself, not its
\* square root.
createSizeScaleNoRoot(max) ==
  [maxRoot   |-> (IF Falsy(max) THEN 1 ELSE max) * 10,
   minRadius |-> MinRadius,
   maxRadius |-> MaxRadius]

\* createSizeScale(maxValue): the closure, which keeps maxRoot and the radii
createSizeScale(max) ==
  [maxRoot   |-> SqrtFix(IF Falsy(max) THEN 1 ELSE max),
   minRadius |-> MinRadius,
   maxRadius |-> MaxRadius]

\* The function createSizeScale returns, applied to value; the radius in thousandths
ApplySizeScale(fn, value) ==
  IF Falsy(value) \/ Leq(value, 0) THEN fn.minRadius * Milli
  ELSE LET root  == SqrtFix(value)
           ratio == Divide(root, fn.maxRoot)
       IN fn.minRadius * Milli + (fn.maxRadius - fn.minRadius) * ratio

\* lineWidthFromTotal(total), reading minLog and maxLog of the globals g; the
\* width in thousandths, or NaN
lineWidthFromTotal(g, total) ==
  IF Falsy(total) \/ Leq(total, 0) THEN 1 * Milli
  ELSE LET tLog  == Log10Fix(total)
           ratio == Divide(tLog - g.minLog, g.maxLog - g.minLog)
           r     == MathMax(0, MathMin(1 * Milli, ratio))
       IN IF IsNaN(r) THEN NaN ELSE 1 * Milli + r * 9

\* initScales(values): the scale state it assigns, as
\* <<maxValue, minPositive, sizeScale, minLog, maxLog>>
initScales(values) ==
  LET max == MathMaxAll(values)
      min == MathMinAll(SelectSeq(values, LAMBDA v : Gt(v, 0)))
  IN <<max, min, createSizeScale(max), Log10Fix(min), Log10Fix(max)>>

---------------------------------------------------------------------------
(* The documents *)

\* A feature of the destination document: its geometry type and its
\* properties.total_disembarked.  Its coordinates and its name are its own:
\* the feature at index i of the document is drawn at position {i}.  Every
\* feature has a geometry, a Point or not: what turf.clustersKmeans and
\* turf.centroid make of a feature without one is the library's business.
Features ==
  [geometry : {"Point"}, total : {Undefined, JsonNull, JsonText, 500000, OuidahTotal}]
    \cup [geometry : {"LineString"}, total : {500000}]

\* The features member of disembarkations_america.geojson (empty also stands
\* for a document with no features member: portsData.features || []).
PortsDocs == UNION {[1..n -> Features] : n \in 0..MaxRecords}

\* The features member of ouidah.geojson (empty also stands for a document
\* with no features member).
OuidahDocs ==
  {<<>>,
   <<[geometry |-> "Point", total |-> Undefined]>>,
   <<[geometry |-> Null, total |-> Undefined]>>}

NoValue == [kind |-> "undefined", features |-> <<>>]
Response == [kind |-> "response", features |-> <<>>]
Data(fs) == [kind |-> "data", features |-> fs]

---------------------------------------------------------------------------
(* Clustering: turf.clustersKmeans (a library, not part of the repository) *)

\* The number of clusters turf uses: numberOfClusters, lowered to the number
\* of features when there are fewer.
EffectiveK(k, n) == IF k > n THEN n ELSE k

\* An assignment of n features to clusters 0..k-1 that numbers the clusters in
\* the order of their first member (the identifiers decide nothing but the
\* order in which drawClustered draws the clusters).
FirstMemberOrder(a, n) ==
  \A i \in 1..n : \A c \in 0..(a[i] - 1) : \E j \in 1..(i - 1) : a[j] = c

Assignments(n, k) == {a \in [1..n -> 0..(k - 1)] : FirstMemberOrder(a, n)}

\* turf.clustersKmeans is a function of its input: for the features of the
\* loaded document it gives every feature a properties.cluster among
\* 0..k-1.  Which one is not known here: every partition is possible, and
\* the same call gives the same partition.  The outcome is kept as one
\* record [k, cluster] for each number of clusters k turf ends up using.
KmeansOutcomes(n) ==
  LET k1 == EffectiveK(LowClusters, n)
      k2 == EffectiveK(MidClusters, n)
  IN IF k1 = k2
     THEN {<<[k |-> k1, cluster |-> a]>> : a \in Assignments(n, k1)}
     ELSE {<<[k |-> k1, cluster |-> a], [k |-> k2, cluster |-> b]>> :
             a \in Assignments(n, k1), b \in Assignments(n, k2)}

\* The globals a render reads, as they are when it is called.
Globals ==
  [portsFeatures |-> portsFeatures, ouidahLatLng |-> ouidahLatLng,
   sizeScale |-> sizeScale, minLog |-> minLog, maxLog |-> maxLog,
   kmeans |-> kmeans, initScalesCalls |-> initScalesCalls]

\* clustered.features[i].properties.cluster for numberOfClusters = k
ClusterOf(g, i, k) ==
  LET ek == EffectiveK(k, Len(g.portsFeatures))
  IN IF g.kmeans[1].k = ek THEN g.kmeans[1].cluster[i]
     ELSE g.kmeans[2].cluster[i]

---------------------------------------------------------------------------
(* Rendering.  g is Globals at the time of the call. *)

\* Fault seeded in clearLayers: the layer keeps what it holds.
KeepLayers(layer) == layer

\* layerGroup.clearLayers()
ClearLayers(layer) == <<>>

\* drawDetailed's two early returns for feature f (lines 78 and 82)
DetailedSkips(f) ==
  \/ f.geometry = Null
  \/ f.geometry # "Point"
  \/ IsNaN(Number(f.total))

\* The circle marker and the polyline drawDetailed adds for the feature at i
DetailedMarker(g, i) ==
  LET total == Number(g.portsFeatures[i].total)
  IN [at |-> {i}, radius |-> ApplySizeScale(g.sizeScale, total),
      total |-> total, nbPorts |-> 1, mode |-> "DETAILED"]

DetailedPath(g, i) ==
  LET total == Number(g.portsFeatures[i].total)
  IN [from |-> g.ouidahLatLng, to |-> {i},
      weight |-> lineWidthFromTotal(g, total),
      total |-> total, mode |-> "DETAILED"]

\* portsFeatures.forEach of drawDetailed, from feature i on
RECURSIVE DetailedPorts(_, _, _)
DetailedPorts(g, layer, i) ==
  IF i > Len(g.portsFeatures) THEN layer
  ELSE DetailedPorts(g, IF DetailedSkips(g.portsFeatures[i]) THEN layer
                        ELSE Append(layer, DetailedMarker(g, i)), i + 1)

RECURSIVE DetailedFlows(_, _, _)
DetailedFlows(g, layer, i) ==
  IF i > Len(g.portsFeatures) THEN layer
  ELSE DetailedFlows(g, IF DetailedSkips(g.portsFeatures[i]) THEN layer
                        ELSE Append(layer, DetailedPath(g, i)), i + 1)

\* clusters[cid].features of drawClustered, as the set of the features' indexes
ClusterMembers(g, cid, k) ==
  {i \in 1..Len(g.portsFeatures) : ClusterOf(g, i, k) = cid}

\* clusters[cid].total: the sum of Number(total_disembarked) || 0 over the members
RECURSIVE SumTotals(_, _)
SumTotals(g, members) ==
  IF members = {} THEN 0
  ELSE LET i == CHOOSE j \in members : TRUE
       IN OrZero(Number(g.portsFeatures[i].total)) + SumTotals(g, members \ {i})

\* The circle marker and the polyline drawClustered adds for cluster cid; its
\* position is turf.centroid of the members, named by the set of the members
ClusterMarker(g, cid, k) ==
  LET members == ClusterMembers(g, cid, k)
      total   == SumTotals(g, members)
  IN [at |-> members, radius |-> ApplySizeScale(g.sizeScale, total),
      total |-> total, nbPorts |-> Cardinality(members), mode |-> "AGGREGATED"]

ClusterPath(g, cid, k) ==
  LET members == ClusterMembers(g, cid, k)
      total   == SumTotals(g, members)
  IN [from |-> g.ouidahLatLng, to |-> members,
      weight |-> lineWidthFromTotal(g, total),
      total |-> total, mode |-> "AGGREGATED"]

\* Object.values(clusters).forEach of drawClustered: the clusters that have a
\* member, by ascending identifier, from cid on
RECURSIVE ClusteredPorts(_, _, _, _)
ClusteredPorts(g, layer, cid, k) ==
  IF cid >= EffectiveK(k, Len(g.portsFeatures)) THEN layer
  ELSE ClusteredPorts(g, IF ClusterMembers(g, cid, k) = {} THEN layer
                         ELSE Append(layer, ClusterMarker(g, cid, k)), cid + 1, k)

RECURSIVE ClusteredFlows(_, _, _, _)
ClusteredFlows(g, layer, cid, k) ==
  IF cid >= EffectiveK(k, Len(g.portsFeatures)) THEN layer
  ELSE ClusteredFlows(g, IF ClusterMembers(g, cid, k) = {} THEN layer
                         ELSE Append(layer, ClusterPath(g, cid, k)), cid + 1, k)

\* drawDetailed()
drawDetailed(g) ==
  /\ portsLayer' = DetailedPorts(g, ClearLayers(portsLayer), 1)
  /\ flowsLayer' = DetailedFlows(g, ClearLayers(flowsLayer), 1)
  /\ lastRender' = [mode |-> "DETAILED", clusterCount |-> 0,
                    scales |-> g.initScalesCalls,
                    switched |-> lastRender.mode = "AGGREGATED"]

\* drawClustered(clusterCount)
drawClustered(g, clusterCount) ==
  /\ portsLayer' = ClusteredPorts(g, ClearLayers(portsLayer), 0, clusterCount)
  /\ flowsLayer' = ClusteredFlows(g, ClearLayers(flowsLayer), 0, clusterCount)
  /\ lastRender' = [mode |-> "AGGREGATED", clusterCount |-> clusterCount,
                    scales |-> g.initScalesCalls,
                    switched |-> lastRender.mode = "DETAILED"]

\* Fault seeded in updateMapForZoom: the thresholds 6 and 4 of the variant
\* src/unnamed/part_000 (lines 197-205) in place of 5 and 3.
updateMapForZoomLater(g, z) ==
  IF z >= DetailedZoom + 1 THEN drawDetailed(g)
  ELSE IF z >= MidZoom + 1 THEN drawClustered(g, MidClusters)
  ELSE drawClustered(g, LowClusters)

\* updateMapForZoom(z)
updateMapForZoom(g, z) ==
  IF z >= DetailedZoom THEN drawDetailed(g)
  ELSE IF z >= MidZoom THEN drawClustered(g, MidClusters)
  ELSE drawClustered(g, LowClusters)

---------------------------------------------------------------------------
(* The program *)

\* lastRender records the last call of drawDetailed or drawClustered: its mode
\* and cluster count, the number of initScales calls completed when it ran,
\* and whether it replaced a render of the other mode.
NoRender == [mode |-> "none", clusterCount |-> 0, scales |-> 0, switched |-> FALSE]
NoProbe == [fn |-> createSizeScale(Undefined), max |-> Undefined, calls |-> <<>>]

\* The state once the script has run to its end: the globals of lines 29-47
\* and the first fetch under way.
InitProgram ==
  /\ pc = "fetchOuidah"
  /\ fetched = <<"data/ouidah.geojson">>
  /\ errors = <<>>
  /\ ouidahFeature = Null
  /\ ouidahLatLng = Null
  /\ ouidahMarker = Null
  /\ portsFeatures = <<>>
  /\ maxValue = 0
  /\ minPositive = 0
  /\ sizeScale = Null
  /\ minLog = 0
  /\ maxLog = 0
  /\ portsLayer = <<>>
  /\ flowsLayer = <<>>
  /\ zoom = NoZoom
  /\ zoomHandlers = 0
  /\ kmeans = <<>>
  /\ lastRender = NoRender
  /\ initScalesCalls = 0
  /\ chain = NoValue

Init == InitProgram /\ probe = NoProbe

scaleVars == <<maxValue, minPositive, sizeScale, minLog, maxLog, initScalesCalls>>
layerVars == <<portsLayer, flowsLayer, lastRender>>
ouidahVars == <<ouidahFeature, ouidahLatLng, ouidahMarker>>

\* fetch("data/ouidah.geojson") resolves with a response
FetchOuidahResolves ==
  /\ pc = "fetchOuidah"
  /\ pc' = "jsonOuidah"
  /\ chain' = Response
  /\ UNCHANGED <<fetched, errors, ouidahVars, portsFeatures, scaleVars,
                 layerVars, zoom, zoomHandlers, kmeans, probe>>

\* fetch("data/ouidah.geojson") rejects: the chain goes to its catch
FetchOuidahRejects ==
  /\ pc = "fetchOuidah"
  /\ pc' = "catch"
  /\ chain' = NoValue
  /\ UNCHANGED <<fetched, errors, ouidahVars, portsFeatures, scaleVars,
                 layerVars, zoom, zoomHandlers, kmeans, probe>>

\* line 243: response.json() resolves with the document
JsonOuidahResolves ==
  /\ pc = "jsonOuidah"
  /\ pc' = "ouidahStep"
  /\ \E doc \in OuidahDocs : chain' = Data(doc)
  /\ UNCHANGED <<fetched, errors, ouidahVars, portsFeatures, scaleVars,
                 layerVars, zoom, zoomHandlers, kmeans, probe>>

\* line 243: response.json() rejects
JsonOuidahRejects ==
  /\ pc = "jsonOuidah"
  /\ pc' = "catch"
  /\ chain' = NoValue
  /\ UNCHANGED <<fetched, errors, ouidahVars, portsFeatures, scaleVars,
                 layerVars, zoom, zoomHandlers, kmeans, probe>>

\* Fault seeded in the Origin step: the return of line 247 is replaced by the
\* fetch of the destination document.
OuidahStepEmptyFetches ==
  /\ pc = "ouidahStep"
  /\ Len(chain.features) = 0
  /\ errors' = Append(errors, "Pas de feature dans ouidah.geojson")
  /\ fetched' = Append(fetched, "data/disembarkations_america.geojson")
  /\ pc' = "fetchPorts"
  /\ chain' = NoValue
  /\ UNCHANGED <<ouidahVars, portsFeatures, scaleVars, layerVars,
                 zoom, zoomHandlers, kmeans, probe>>

\* lines 244-291, the document has no feature: logs and returns undefined
OuidahStepEmpty ==
  /\ pc = "ouidahStep"
  /\ Len(chain.features) = 0
  /\ errors' = Append(errors, "Pas de feature dans ouidah.geojson")
  /\ pc' = "responseStep"
  /\ chain' = NoValue
  /\ UNCHANGED <<fetched, ouidahVars, portsFeatures, scaleVars, layerVars,
                 zoom, zoomHandlers, kmeans, probe>>

\* lines 244-291, the first feature has no geometry: line 253 throws after
\* line 251 has assigned ouidahFeature
OuidahStepThrows ==
  /\ pc = "ouidahStep"
  /\ Len(chain.features) > 0
  /\ chain.features[1].geometry = Null
  /\ ouidahFeature' = chain.features[1]
  /\ pc' = "catch"
  /\ chain' = NoValue
  /\ UNCHANGED <<fetched, errors, ouidahLatLng, ouidahMarker, portsFeatures,
                 scaleVars, layerVars, zoom, zoomHandlers, kmeans, probe>>

\* Fault seeded in the Origin step: the zoomend listener is registered here,
\* before the destination document is loaded and the scales are computed.
OuidahStepRegisters ==
  /\ pc = "ouidahStep"
  /\ Len(chain.features) > 0
  /\ chain.features[1].geometry # Null
  /\ ouidahFeature' = [chain.features[1] EXCEPT !.total = OuidahTotal]
  /\ ouidahLatLng' = "ouidah"
  /\ ouidahMarker' = "marker"
  /\ zoom' = InitialZoom
  /\ zoomHandlers' = zoomHandlers + 1
  /\ fetched' = Append(fetched, "data/disembarkations_america.geojson")
  /\ pc' = "fetchPorts"
  /\ chain' = NoValue
  /\ UNCHANGED <<errors, portsFeatures, scaleVars, layerVars, kmeans, probe>>

\* lines 244-291: keeps the Origin with its fixed total, places its marker,
\* sets the view and starts the second fetch
OuidahStep ==
  /\ pc = "ouidahStep"
  /\ Len(chain.features) > 0
  /\ chain.features[1].geometry # Null
  /\ ouidahFeature' = [chain.features[1] EXCEPT !.total = OuidahTotal]
  /\ ouidahLatLng' = "ouidah"
  /\ ouidahMarker' = "marker"
  /\ zoom' = InitialZoom
  /\ fetched' = Append(fetched, "data/disembarkations_america.geojson")
  /\ pc' = "fetchPorts"
  /\ chain' = NoValue
  /\ UNCHANGED <<errors, portsFeatures, scaleVars, layerVars, zoomHandlers,
                 kmeans, probe>>

\* fetch("data/disembarkations_america.geojson") resolves with a response
FetchPortsResolves ==
  /\ pc = "fetchPorts"
  /\ pc' = "responseStep"
  /\ chain' = Response
  /\ UNCHANGED <<fetched, errors, ouidahVars, portsFeatures, scaleVars,
                 layerVars, zoom, zoomHandlers, kmeans, probe>>

\* fetch("data/disembarkations_america.geojson") rejects
FetchPortsRejects ==
  /\ pc = "fetchPorts"
  /\ pc' = "catch"
  /\ chain' = NoValue
  /\ UNCHANGED <<fetched, errors, ouidahVars, portsFeatures, scaleVars,
                 layerVars, zoom, zoomHandlers, kmeans, probe>>

\* lines 292-295: passes undefined on, or starts response.json()
ResponseStep ==
  /\ pc = "responseStep"
  /\ pc' = IF chain.kind = "undefined" THEN "portsStep" ELSE "jsonPorts"
  /\ UNCHANGED <<chain, fetched, errors, ouidahVars, portsFeatures, scaleVars,
                 layerVars, zoom, zoomHandlers, kmeans, probe>>

\* line 294: response.json() resolves with the document
JsonPortsResolves ==
  /\ pc = "jsonPorts"
  /\ pc' = "portsStep"
  /\ \E doc \in PortsDocs : chain' = Data(doc)
  /\ UNCHANGED <<fetched, errors, ouidahVars, portsFeatures, scaleVars,
                 layerVars, zoom, zoomHandlers, kmeans, probe>>

\* line 294: response.json() rejects
JsonPortsRejects ==
  /\ pc = "jsonPorts"
  /\ pc' = "catch"
  /\ chain' = NoValue
  /\ UNCHANGED <<fetched, errors, ouidahVars, portsFeatures, scaleVars,
                 layerVars, zoom, zoomHandlers, kmeans, probe>>

\* lines 296-297: nothing was passed on
PortsStepSkips ==
  /\ pc = "portsStep"
  /\ chain.kind = "undefined"
  /\ pc' = "done"
  /\ UNCHANGED <<chain, fetched, errors, ouidahVars, portsFeatures, scaleVars,
                 layerVars, zoom, zoomHandlers, kmeans, probe>>

\* Fault seeded in the destination step: the return of line 303 is missing,
\* so the step goes on to register the zoomend listener.
PortsStepEmptyGoesOn ==
  /\ pc = "portsStep"
  /\ chain.kind = "data"
  /\ Len(chain.features) = 0
  /\ errors' = Append(errors, "Pas de ports dans disembarkations_america.geojson")
  /\ zoomHandlers' = zoomHandlers + 1
  /\ pc' = "done"
  /\ chain' = NoValue
  /\ UNCHANGED <<fetched, ouidahVars, portsFeatures, scaleVars, layerVars,
                 zoom, kmeans, probe>>

\* lines 299-304: the document has no feature
PortsStepEmpty ==
  /\ pc = "portsStep"
  /\ chain.kind = "data"
  /\ Len(chain.features) = 0
  /\ errors' = Append(errors, "Pas de ports dans disembarkations_america.geojson")
  /\ pc' = "done"
  /\ chain' = NoValue
  /\ UNCHANGED <<fetched, ouidahVars, portsFeatures, scaleVars, layerVars,
                 zoom, zoomHandlers, kmeans, probe>>

\* lines 309-314: the positive totals of the features, then the Origin's
ScaleValues(features) ==
  Append(SelectSeq([i \in 1..Len(features) |-> Number(features[i].total)],
                   LAMBDA v : ~IsNaN(v) /\ Gt(v, 0)),
         ouidahFeature.total)

\* lines 306-340: keeps the features, computes the scales, fits the view (to a
\* zoom level z that depends on the window), draws and registers the handler.
\* km is what turf.clustersKmeans answers for these features.
PortsStep ==
  /\ pc = "portsStep"
  /\ chain.kind = "data"
  /\ Len(chain.features) > 0
  /\ portsFeatures' = chain.features
  /\ LET s == initScales(ScaleValues(chain.features))
     IN /\ maxValue' = s[1]
        /\ minPositive' = s[2]
        /\ sizeScale' = s[3]
        /\ minLog' = s[4]
        /\ maxLog' = s[5]
  /\ initScalesCalls' = initScalesCalls + 1
  /\ \E km \in KmeansOutcomes(Len(chain.features)) : kmeans' = km
  /\ \E z \in 0..MaxZoom :
       /\ zoom' = z
       /\ updateMapForZoom(
            [portsFeatures |-> portsFeatures', ouidahLatLng |-> ouidahLatLng,
             sizeScale |-> sizeScale', minLog |-> minLog', maxLog |-> maxLog',
             kmeans |-> kmeans', initScalesCalls |-> initScalesCalls'], z)
  /\ zoomHandlers' = zoomHandlers + 1
  /\ pc' = "done"
  /\ chain' = NoValue
  /\ UNCHANGED <<fetched, errors, ouidahVars, probe>>

\* lines 342-344: the catch logs the error
Catch ==
  /\ pc = "catch"
  /\ errors' = Append(errors, "Erreur lors du chargement des donnees")
  /\ pc' = "done"
  /\ UNCHANGED <<chain, fetched, ouidahVars, portsFeatures, scaleVars,
                 layerVars, zoom, zoomHandlers, kmeans, probe>>

\* The user zooms the map to level z (possible once the map has a view); the
\* zoomend event runs the listener of lines 338-340 if it is registered.
ZoomEnd(z) ==
  /\ zoom # NoZoom
  /\ zoom' = z
  /\ IF zoomHandlers > 0
     THEN updateMapForZoom(Globals, z)
     ELSE UNCHANGED layerVars
  /\ UNCHANGED <<pc, chain, fetched, errors, ouidahVars, portsFeatures,
                 scaleVars, zoomHandlers, kmeans, probe>>

Next ==
  \/ FetchOuidahResolves
  \/ FetchOuidahRejects
  \/ JsonOuidahResolves
  \/ JsonOuidahRejects
  \/ OuidahStepEmpty
  \/ OuidahStepThrows
  \/ OuidahStep
  \/ FetchPortsResolves
  \/ FetchPortsRejects
  \/ ResponseStep
  \/ JsonPortsResolves
  \/ JsonPortsRejects
  \/ PortsStepSkips
  \/ PortsStepEmpty
  \/ PortsStep
  \/ Catch
  \/ \E z \in 0..MaxZoom : ZoomEnd(z)

Spec == Init /\ [][Next]_vars

---------------------------------------------------------------------------
(* The size scale on its own: createSizeScale(max) for a chosen max, and the
   function it returns called on chosen values.  probe keeps the scale, the
   max it was built from and its last two calls. *)

ProbeValues == (0..MaxProbe) \cup {500000, OuidahTotal}

InitScale ==
  /\ InitProgram
  /\ \E max \in ProbeValues \cup {Undefined} :
       probe = [fn |-> createSizeScale(max), max |-> max, calls |-> <<>>]

\* sizeScale(value)
CallSizeScale(value) ==
  /\ LET call == [arg |-> value, out |-> ApplySizeScale(probe.fn, value)]
     IN probe' = [probe EXCEPT !.calls =
                    IF Len(@) < 2 THEN Append(@, call) ELSE <<@[2], call>>]
  /\ UNCHANGED <<pc, chain, fetched, errors, ouidahVars, portsFeatures,
                 scaleVars, layerVars, zoom, zoomHandlers, kmeans>>

NextScale == \E value \in ProbeValues \cup {Undefined, 0 - 1} : CallSizeScale(value)

SpecScale == InitScale /\ [][NextScale]_vars

---------------------------------------------------------------------------
(* Properties *)

\* A valid Record: a feature with Point geometry and a numeric volume.
ValidRecord(f) ==
  /\ f.geometry = "Point"
  /\ f.total \notin {Undefined, JsonNull, JsonText}

ValidRecords == {i \in 1..Len(portsFeatures) : ValidRecord(portsFeatures[i])}

\* The sum of F[i] over the i of S
RECURSIVE SumOf(_, _)
SumOf(F, S) ==
  IF S = {} THEN 0
  ELSE LET i == CHOOSE j \in S : TRUE
       IN F[i] + SumOf(F, S \ {i})

\* C1: once the zoomend listener is registered, the last render is the one the
\* current zoom level alone selects, whatever the zoom levels before it:
\* DETAILED from zoom 5 on, AGGREGATED with 20 clusters at zoom 3 and 4,
\* AGGREGATED with 5 clusters below zoom 3.
ModeFollowsZoom ==
  zoomHandlers > 0 =>
    /\ zoom >= 5 => lastRender.mode = "DETAILED"
    /\ (3 <= zoom /\ zoom < 5) =>
         lastRender.mode = "AGGREGATED" /\ lastRender.clusterCount = 20
    /\ zoom < 3 =>
         lastRender.mode = "AGGREGATED" /\ lastRender.clusterCount = 5
    /\ \A j \in 1..Len(portsLayer) : portsLayer[j].mode = lastRender.mode
    /\ \A j \in 1..Len(flowsLayer) : flowsLayer[j].mode = lastRender.mode

\* C1: the map was drawn in detail, was then zoomed out to level 4, and shows
\* the 20-cluster aggregation.
ModeFollowsZoomWitness ==
  /\ zoomHandlers > 0
  /\ zoom = 4
  /\ lastRender.switched
  /\ lastRender.mode = "AGGREGATED"
  /\ lastRender.clusterCount = 20
  /\ Len(portsLayer) = 2

\* C2: once the zoomend listener is registered, the two layers hold exactly
\* what one render at the current zoom level draws on empty layers: nothing
\* of an earlier render is left, and nothing is drawn twice.
FullRedraw ==
  zoomHandlers > 0 =>
    IF zoom >= 5
    THEN /\ portsLayer = DetailedPorts(Globals, <<>>, 1)
         /\ flowsLayer = DetailedFlows(Globals, <<>>, 1)
    ELSE /\ portsLayer = ClusteredPorts(Globals, <<>>, 0, IF zoom >= 3 THEN 20 ELSE 5)
         /\ flowsLayer = ClusteredFlows(Globals, <<>>, 0, IF zoom >= 3 THEN 20 ELSE 5)

\* C2: two valid Records were drawn in detail, two symbols and two lines, and
\* the map was then zoomed out to level 1, where they are one cluster.
FullRedrawWitness ==
  /\ zoomHandlers > 0
  /\ zoom = 1
  /\ lastRender.switched
  /\ ValidRecords = {1, 2}
  /\ Len(portsLayer) = 1
  /\ Len(flowsLayer) = 1
  /\ portsLayer[1].nbPorts = 2

\* C3: after a DETAILED render the symbol layer holds exactly one symbol, and
\* the flow-line layer exactly one line from the Origin, for each valid
\* Record, and nothing for a record with a missing or non-Point geometry or
\* a missing or non-numeric volume.
DetailedDrawsValidRecords ==
  (zoomHandlers > 0 /\ lastRender.mode = "DETAILED") =>
    /\ Len(portsLayer) = Cardinality(ValidRecords)
    /\ Len(flowsLayer) = Cardinality(ValidRecords)
    /\ {portsLayer[j].at : j \in 1..Len(portsLayer)} = {{i} : i \in ValidRecords}
    /\ {flowsLayer[j].to : j \in 1..Len(flowsLayer)} = {{i} : i \in ValidRecords}
    /\ \A j \in 1..Len(flowsLayer) : flowsLayer[j].from = ouidahLatLng

\* C4: an AGGREGATED(k) render draws one symbol and one line for each
\* non-empty cluster, at most k of each; every valid Record is a member of
\* exactly one drawn cluster, and a record that fails validation is a member
\* of none and is counted in no cluster's member count.
ClustersHoldValidRecords ==
  (zoomHandlers > 0 /\ lastRender.mode = "AGGREGATED") =>
    /\ Len(portsLayer) = Len(flowsLayer)
    /\ Len(portsLayer) <= lastRender.clusterCount
    /\ \A j \in 1..Len(portsLayer) :
         /\ portsLayer[j].at # {}
         /\ portsLayer[j].at \subseteq ValidRecords
         /\ portsLayer[j].nbPorts = Cardinality(portsLayer[j].at \cap ValidRecords)
         /\ flowsLayer[j].to = portsLayer[j].at
    /\ \A i \in ValidRecords :
         Cardinality({j \in 1..Len(portsLayer) : i \in portsLayer[j].at}) = 1

\* C5: in an AGGREGATED(k) render the aggregate volumes of the drawn clusters
\* add up to the volumes of the valid Records.
VolumeConserved ==
  (zoomHandlers > 0 /\ lastRender.mode = "AGGREGATED") =>
    SumOf([j \in 1..Len(portsLayer) |-> portsLayer[j].total], 1..Len(portsLayer))
      = SumOf([i \in 1..Len(portsFeatures) |-> Number(portsFeatures[i].total)],
              ValidRecords)

\* C6: every radius of a drawn symbol, in either mode, lies between
\* minRadius = 4 and maxRadius = 25.
RadiusClamped ==
  \A j \in 1..Len(portsLayer) :
    /\ 4 * Milli <= portsLayer[j].radius
    /\ portsLayer[j].radius <= 25 * Milli

\* C7, as amended: for a scale built from a maxValue > 0, the radius is
\* non-decreasing over the values between 0 and maxValue, it is 4 for 0, for
\* every value <= 0 and for undefined, and it is 25 for maxValue.
SizeScaleOnPositiveMax ==
  (IsNumber(probe.max) /\ probe.max > 0) =>
    \A i \in 1..Len(probe.calls) :
      LET c == probe.calls[i]
      IN /\ (c.arg = Undefined \/ c.arg <= 0) => c.out = 4 * Milli
         /\ c.arg = probe.max => c.out = 25 * Milli
         /\ \A j \in 1..Len(probe.calls) :
              LET d == probe.calls[j]
              IN (0 <= c.arg /\ c.arg <= d.arg /\ d.arg <= probe.max)
                   => c.out <= d.out

\* C7: the scale built from 5 was called on 2 and then on 5.
SizeScaleWitness ==
  /\ probe.max = 5
  /\ Len(probe.calls) = 2
  /\ probe.calls[1].arg = 2
  /\ probe.calls[1].out > 4 * Milli
  /\ probe.calls[1].out < 25 * Milli
  /\ probe.calls[2].arg = 5
  /\ probe.calls[2].out = 25 * Milli

\* C7, as stated: the same for every maxValue, 0 and undefined included.
SizeScaleOnAnyMax ==
  \A i \in 1..Len(probe.calls) :
    LET c == probe.calls[i]
    IN /\ (c.arg = Undefined \/ c.arg <= 0) => c.out = 4 * Milli
       /\ c.arg = probe.max => c.out = 25 * Milli
       /\ \A j \in 1..Len(probe.calls) :
            LET d == probe.calls[j]
            IN (0 <= c.arg /\ c.arg <= d.arg /\ d.arg <= probe.max)
                 => c.out <= d.out

\* C8: every stroke width of a drawn line lies in [1,10], and it is 1 for a
\* total <= 0.
WidthInRange ==
  \A j \in 1..Len(flowsLayer) :
    /\ 1 * Milli <= flowsLayer[j].weight
    /\ flowsLayer[j].weight <= 10 * Milli
    /\ flowsLayer[j].total <= 0 => flowsLayer[j].weight = 1 * Milli

\* C9: once the load has failed (an error is logged, or the chain is on its
\* way to the catch), no render has run, no zoomend listener is registered,
\* the two layers are empty, and no URL is fetched a second time; this holds
\* in every later state, whatever zoomend events follow.
FailureIsTerminal ==
  (errors # <<>> \/ pc = "catch") =>
    /\ lastRender = NoRender
    /\ zoomHandlers = 0
    /\ portsLayer = <<>>
    /\ flowsLayer = <<>>
    /\ initScalesCalls = 0
    /\ Len(errors) <= 1
    /\ Len(fetched) <= 2
    /\ Len(fetched) = 2 => fetched[1] # fetched[2]

\* C9: the load of the destination document failed and the map was then
\* zoomed from level 3 to level 6.
FailureIsTerminalWitness ==
  /\ errors # <<>>
  /\ pc = "done"
  /\ Len(fetched) = 2
  /\ zoom = 6

\* C10: initScales runs at most once, only after both documents are fetched
\* and the features kept; every render ran after it; and from then on the
\* scale state is the one initScales computed from the kept features.
ScalesOnceBeforeRender ==
  /\ initScalesCalls <= 1
  /\ lastRender.mode # "none" => lastRender.scales = 1
  /\ initScalesCalls = 0 =>
       /\ lastRender = NoRender
       /\ <<maxValue, minPositive, sizeScale, minLog, maxLog>> = <<0, 0, Null, 0, 0>>
  /\ initScalesCalls = 1 =>
       /\ Len(fetched) = 2
       /\ pc = "done"
       /\ portsFeatures # <<>>
       /\ <<maxValue, minPositive, sizeScale, minLog, maxLog>>
            = initScales(ScaleValues(portsFeatures))

\* C10: the scales are computed from two features; the map was drawn
\* aggregated and, zoomed in to level 6, is drawn in detail with them.
ScalesOnceWitness ==
  /\ initScalesCalls = 1
  /\ maxValue = OuidahTotal
  /\ minPositive = 500000
  /\ zoom = 6
  /\ lastRender.switched
  /\ lastRender.mode = "DETAILED"
  /\ lastRender.scales = 1
  /\ Len(portsLayer) = 2

\* C11: the destination document is fetched second and only once the Origin
\* document is fetched, parsed and its first feature placed; when the Origin
\* document has no feature the destination fetch is never started and the
\* JSON parse, the scale initialisation, the first render and the
\* registration of the zoomend listener are all skipped.
FetchesInSequence ==
  /\ Len(fetched) \in {1, 2}
  /\ fetched[1] = "data/ouidah.geojson"
  /\ pc \in {"fetchOuidah", "jsonOuidah", "ouidahStep"} => Len(fetched) = 1
  /\ Len(fetched) = 2 =>
       /\ fetched[2] = "data/disembarkations_america.geojson"
       /\ ouidahLatLng # Null
       /\ ouidahMarker # Null
       /\ zoom # NoZoom
  /\ pc \in {"fetchPorts", "jsonPorts"} => Len(fetched) = 2
  /\ initScalesCalls > 0 => Len(fetched) = 2
  /\ (\E i \in 1..Len(errors) : errors[i] = "Pas de feature dans ouidah.geojson") =>
       /\ Len(fetched) = 1
       /\ pc \in {"responseStep", "portsStep", "done"}
       /\ chain = NoValue
       /\ portsFeatures = <<>>
       /\ initScalesCalls = 0
       /\ lastRender = NoRender
       /\ zoomHandlers = 0

\* C11: the Origin document had no feature and the chain has run to its end
\* with the one fetch.
FetchesInSequenceWitness ==
  /\ errors = <<"Pas de feature dans ouidah.geojson">>
  /\ pc = "done"
  /\ fetched = <<"data/ouidah.geojson">>
  /\ ouidahLatLng = Null

====
